---- MODULE Spec2Model ----
(***************************************************************************)
(* State-machine model of the WebRTC-SIP gateway: the signaling engine     *)
(* (class SipGateway) and the part of the browser-signaling hub            *)
(* (signaling-server.js) that drives it.                                   *)
(*                                                                         *)
(* One action is one run of a handler from its entry (a datagram, a hub    *)
(* message, a timer expiry, the completion of a media-relay RPC) up to its *)
(* next suspension point (an await on the media-relay).  A suspended       *)
(* handler is a record in the bag conts.  Session objects live in a pool   *)
(* (objs) so that a handler or a timer that still holds a reference to a   *)
(* session that was removed from, or replaced in, the sessions map can     *)
(* act on it, as the closures of the source do.                            *)
(*                                                                         *)
(* Time is counted in units of 500 ms (T1).                                *)
(***************************************************************************)
EXTENDS Integers, Sequences, FiniteSets, Bags, TLC

-----------------------------------------------------------------------------
(* Bounds of the model *)

CallIds == {"c1", "c2"}          \* Call-ID values seen on the wire
Txns == {"t1", "t2"}             \* (CSeq, branch) pairs of inbound INVITEs
Users == {"alice"}               \* browser usernames
Channels == {"w1"}               \* WebSocket connections of the browsers
RegNames == {"alice", "bob"}     \* usernames tried in the registry's own spec
Peers == {"alice", "bob"}        \* values of message.to
RegChannels == {"w1", "w2"}      \* channels of the registry's own spec
Signals == {"5", "#", "12"}      \* Signal= values of DTMF bodies
Durations == {200}               \* Duration= values of DTMF bodies
Origins == {"a1", "a2"}          \* source address and port of an inbound INVITE
CSeqs == {1, 10000}              \* sequence numbers makeCallToSip draws

MaxObjs == 2                     \* session objects alive at once
MaxInputs == 3                   \* datagrams, hub messages and API calls taken
RetransCap == 8                  \* the count of 200 retransmissions saturates here
MaxConcurrentSessions == 1       \* config.maxConcurrentSessions

ObjIds == 1..MaxObjs

\* What an await on a media-relay offer can come back with: a response whose
\* result is ok and whose SDP passes validateSDP, one whose result is ok and
\* whose SDP does not, or no usable response (result not ok, or the retries
\* ran out).
RelayResults == {"ok", "badsdp", "error"}

-----------------------------------------------------------------------------
(* Program constants *)

T1 == 1                          \* 500 ms
T2 == 8                          \* 4000 ms
TIMER_B == 64 * T1
TIMER_H == 64 * T1
MaxRetransmits == 7
DefaultDuration == 160           \* DTMF duration when the body gives none
NoDuration == 0 - 1              \* the body has no Duration=<digits>

Null == "null"

\* Destinations of datagrams other than an origin: config.sipServerHost and
\* sipServerPort; the Contact of a 2xx (the ACK goes there).
SipServer == "sipServer"
Contact == "contact"
\* The host of the From URI of an inbound INVITE, which NAT may have masked.
FromUri == "fromUri"

-----------------------------------------------------------------------------
VARIABLES
  sessions,            \* this.sessions: call-id -> session object (an ObjId)
  objs,                \* the session objects
  inviteTransactions,  \* this.inviteTransactions: <<call-id, txn>> -> lastResponse
  transactions,        \* this.transactions: call-ids of registered client transactions
  conts,               \* bag of handlers suspended on a media-relay RPC
  timers,              \* bag of pending setTimeout timers
  metrics,             \* this.metrics
  inputs,              \* datagrams, hub messages and API calls taken so far
  users,               \* hub: the peer registry, username -> channel
  chans,               \* hub: per channel, its readyState and its username
  activeCalls,         \* hub: insertion-ordered map call-id -> owner, direction
  created,             \* history: dialogs created per <<call-id, txn>> (up to 2)
  relay,               \* history: per call-id, the media relay's view of the call
  step,                \* the handler the last step ran
  out,                 \* datagrams sent by the last step
  emitted,             \* events emitted by the last step
  thrown,              \* the error makeCallToSip threw in the last step, or Null
  wire,                \* codec: a message object, its text, the text parsed
  run,                 \* this.isRunning, and how far shutdown() has come
  wsOut                \* hub: messages forwarded to browser peers by the last step

vars == <<sessions, objs, inviteTransactions, transactions, conts, timers,
          metrics, inputs, users, chans, activeCalls, created, relay, step, out,
          emitted, thrown, wire, run, wsOut>>

\* An unused slot of the object pool.
FreeObj ==
  [callId |-> Null, direction |-> Null, state |-> "free", fromTag |-> Null,
   toTag |-> Null, txn |-> Null, user |-> Null, ackReceived |-> FALSE,
   rcount |-> 0, rint |-> 0,
   rinfo |-> Null,     \* incoming: where the initial INVITE came from
   cseq |-> 0,         \* the sequence number of the gateway's own requests
   viaBranch |-> Null, \* outgoing: the branch of the INVITE sent
   \* history fields, not read by any handler:
   deletes |-> 0,      \* media-relay deletes issued for this dialog
   rtotal |-> 0,       \* 200 OK retransmissions sent for this dialog
   okSent |-> FALSE,   \* answerSipCall has sent its 200 OK
   sinceOk |-> 0,      \* time from that first 200 OK to now, or to Timer H
   quiet |-> TRUE,     \* nothing but its own timers touched the dialog since
   hFired |-> FALSE,   \* a Timer-H of this dialog has found no ACK
   failedEv |-> 0]     \* call-failed(ACK timeout) events emitted for it

NoResponse == [status |-> 0, body |-> Null]

\* The engine after initialize(): isRunning is true, shutdown() not called.
\* shutdown is "no", "waiting" (in its await on the hangups) or "done"
\* (it has closed the socket and returned).
Running == [isRunning |-> TRUE, shutdown |-> "no"]

\* The media relay's view of a call: live, an offer for the call-id returned
\* result ok (the relay holds a session for it); dels, the deletes issued
\* for the call-id (up to 2).
NoRelay == [live |-> FALSE, dels |-> 0]

\* cseq, branch and dst are kept for the datagrams addressed from the dialog
\* or the configuration: the requests, and the 487 of handleCancel.  A
\* response sent to the source of the datagram in hand leaves them unset.
Datagram(status, method, callId, txn, body) ==
  [status |-> status, method |-> method, callId |-> callId, txn |-> txn,
   body |-> body, cseq |-> 0, branch |-> Null, dst |-> Null]

\* sent: how many datagrams the handler had sent when it emitted the event
\* (history, kept for call-answered only).
Event(type, callId, user, reason) ==
  [type |-> type, callId |-> callId, user |-> user, reason |-> reason,
   data |-> <<>>, sent |-> 0]

\* The dtmf-received event: data is <<digit, duration>>.
DtmfEvent(callId, digit, duration) ==
  [Event("dtmf-received", callId, Null, Null) EXCEPT !.data = <<digit, duration>>]

\* rest: the call-ids the awaiting caller has still to go through.
\* rinfo: the source of the datagram the handler was called with.
\* tags: the from-tag and to-tag of the payload given to the media relay,
\* kept for the offer of a re-INVITE.
Cont(op, callId, txn, obj, user, after) ==
  [op |-> op, callId |-> callId, txn |-> txn, obj |-> obj, user |-> user,
   after |-> after, rest |-> <<>>, rinfo |-> Null, tags |-> <<>>]

Timer(kind, obj, callId, user, rem, held) ==
  [kind |-> kind, obj |-> obj, callId |-> callId, user |-> user, rem |-> rem,
   held |-> held]

\* The state a handler works on; out and emitted start empty in every step.
Cur ==
  [sessions |-> sessions, objs |-> objs, inviteTransactions |-> inviteTransactions,
   transactions |-> transactions, conts |-> conts, timers |-> timers,
   metrics |-> metrics, users |-> users, chans |-> chans,
   activeCalls |-> activeCalls,
   created |-> created, relay |-> relay, out |-> <<>>, emitted |-> <<>>,
   thrown |-> Null, run |-> run, wsOut |-> <<>>,
   rinfo |-> Null]     \* the source of the datagram in hand, where kept

-----------------------------------------------------------------------------
(* Helpers on the model's data structures *)

One(x) == SetToBag({x})

Range(f) == {f[x] : x \in DOMAIN f}

MapRemove(f, k) == [x \in DOMAIN f \ {k} |-> f[x]]

MapPut(f, k, v) == [x \in DOMAIN f \cup {k} |-> IF x = k THEN v ELSE f[x]]

Min(S) == CHOOSE x \in S : \A y \in S : x <= y

\* Session objects something still refers to: the sessions map, a pending
\* timer's closure, a suspended handler's local variable.
Referenced(s) ==
  Range(s.sessions)
    \cup {t.obj : t \in BagToSet(s.timers)}
    \cup {k.obj : k \in BagToSet(s.conts)}

\* Objects nothing refers to any more are garbage: their slot is freed.
Collect(s) ==
  [s EXCEPT !.objs = [i \in ObjIds |->
                        IF i \in Referenced(s) THEN s.objs[i] ELSE FreeObj]]

Commit(s0) ==
  LET s == Collect(s0)
  IN /\ sessions' = s.sessions
     /\ objs' = s.objs
     /\ inviteTransactions' = s.inviteTransactions
     /\ transactions' = s.transactions
     /\ conts' = s.conts
     /\ timers' = s.timers
     /\ metrics' = s.metrics
     /\ users' = s.users
     /\ chans' = s.chans
     /\ activeCalls' = s.activeCalls
     /\ created' = s.created
     /\ relay' = s.relay
     /\ out' = s.out
     /\ emitted' = s.emitted
     /\ thrown' = s.thrown
     /\ wsOut' = s.wsOut
     /\ wire' = wire
     /\ run' = s.run

FreeSlots(s) == {i \in ObjIds : i \notin Referenced(s)}

\* clearTimeout(session.<handle>) and the handle set to null.
ClearHeld(s, kind, i) ==
  [s EXCEPT !.timers =
     s.timers (-) SetToBag({t \in BagToSet(s.timers) :
                              t.kind = kind /\ t.obj = i /\ t.held})]

\* session.<handle> = setTimeout(..., rem): a timer the handle pointed to
\* stays pending, without a handle.
ArmHeld(s, kind, i, callId, user, rem) ==
  LET old == {t \in BagToSet(s.timers) : t.kind = kind /\ t.obj = i /\ t.held}
  IN [s EXCEPT !.timers =
        ((s.timers (-) SetToBag(old))
           (+) SetToBag({[t EXCEPT !.held = FALSE] : t \in old}))
           (+) One(Timer(kind, i, callId, user, rem, TRUE))]

Armed(kind, i) == \E t \in BagToSet(timers) : t.kind = kind /\ t.obj = i

-----------------------------------------------------------------------------
(* Engine: sendResponse *)

SendResponse(s, callId, txn, status, body) ==
  LET key == <<callId, txn>>
      s1 == [s EXCEPT !.out = Append(@, Datagram(status, "", callId, txn, body))]
  IN IF key \in DOMAIN s1.inviteTransactions
       THEN [s1 EXCEPT !.inviteTransactions[key] =
                         [status |-> status, body |-> body]]
       ELSE s1

\* sendResponse with a remembered address: the dialog's rinfo.
SendResponseTo(s, callId, txn, status, body, rinfo) ==
  LET s1 == SendResponse(s, callId, txn, status, body)
  IN [s1 EXCEPT !.out[Len(s1.out)].dst = rinfo]

\* sendSipMessage of a request built by the gateway.
SendRequest(s, method, callId, cseq, branch, dst) ==
  [s EXCEPT !.out = Append(@, [Datagram(0, method, callId, Null, Null)
                                 EXCEPT !.cseq = cseq, !.branch = branch,
                                        !.dst = dst])]

-----------------------------------------------------------------------------
(* Hub: handlers of the engine's events that call nothing back *)

\* activeCalls.delete of every entry of a user, and of the entry of a call-id.
ActiveRemoveUser(ac, user) == SelectSeq(ac, LAMBDA e : e.user # user)

ActiveRemoveCall(ac, callId) == SelectSeq(ac, LAMBDA e : e.callId # callId)

HubOnCallFailed(s, user, reason) ==
  [s EXCEPT !.emitted = Append(@, Event("call-failed", Null, user, reason)),
            !.activeCalls = ActiveRemoveUser(@, user)]

HubOnCallEnded(s, user) ==
  [s EXCEPT !.emitted = Append(@, Event("call-ended", Null, user, Null)),
            !.activeCalls = ActiveRemoveUser(@, user)]

HubOnSipCallEnded(s, callId) ==
  [s EXCEPT !.emitted = Append(@, Event("sip-call-ended", callId, Null, Null)),
            !.activeCalls = ActiveRemoveCall(@, callId)]

-----------------------------------------------------------------------------
(* Engine: cleanupSession *)

\* What the caller awaiting cleanupSession does when it returns.
After(s, after, callId, user, reason) ==
  CASE after = "hubDelete" ->
         [s EXCEPT !.activeCalls = ActiveRemoveCall(@, callId)]
    [] after = "emitFailed" -> HubOnCallFailed(s, user, reason)
    [] OTHER -> s

\* cleanupSession up to its await on the media-relay delete.  A call that
\* returns early resolves at once, and its caller goes on in the same step.
CleanupSession(s, callId, after, user) ==
  IF callId \notin DOMAIN s.sessions
    THEN After(s, after, callId, user, "sip-failure")
  ELSE LET i == s.sessions[callId]
           o == s.objs[i]
       IN IF o.state = "terminating"
            THEN After(s, after, callId, user, "sip-failure")
          ELSE LET s1 == [s EXCEPT !.objs[i].state = "terminating",
                                   !.objs[i].deletes = @ + 1,
                                   !.relay[callId].dels =
                                      IF @ < 2 THEN @ + 1 ELSE @]
                   s2 == ClearHeld(ClearHeld(s1, "H", i), "R", i)
                   s3 == IF o.txn # Null
                           THEN [s2 EXCEPT !.inviteTransactions =
                                             MapRemove(@, <<callId, o.txn>>)]
                           ELSE s2
               IN [s3 EXCEPT !.conts =
                     @ (+) One(Cont("cleanup", callId, Null, 0, user, after))]

-----------------------------------------------------------------------------
(* History bookkeeping *)

\* Nothing of the call is left in the gateway: no dialog, no suspended
\* handler, no pending timer.
Complete(s, callId) ==
  /\ callId \notin DOMAIN s.sessions
  /\ \A k \in BagToSet(s.conts) : k.callId # callId
  /\ \A t \in BagToSet(s.timers) : t.callId # callId

\* An initial offer is invoked for callId: a call-id of which nothing is left
\* names a new call.
StartCall(s, callId) ==
  IF Complete(s, callId) THEN [s EXCEPT !.relay[callId] = NoRelay] ELSE s

\* Something other than its own timers acts on the dialog stored at callId.
Touch(s, callId) ==
  IF callId \in DOMAIN s.sessions
    THEN [s EXCEPT !.objs[s.sessions[callId]].quiet = FALSE]
    ELSE s

Creators(s) ==
  BagCardinality([k \in {k \in BagToSet(s.conts) : k.op \in {"invite", "makeCall"}}
                    |-> s.conts[k]])

\* Room for one more session object, for the handlers that create a session
\* when they resume.
RoomForSession ==
  Cardinality(Referenced(Cur) \cap ObjIds) + Creators(Cur) < MaxObjs

\* The model follows the engine up to the return of shutdown(), which has
\* closed the socket: what a handler does with a closed socket is left out.
\* One more input is taken from the outside.
Input(name, s) ==
  /\ inputs < MaxInputs
  /\ run.shutdown # "done"
  /\ inputs' = inputs + 1
  /\ step' = name
  /\ Commit(s)

\* A timer expires or a media-relay RPC returns.
Internal(name, s) ==
  /\ run.shutdown # "done"
  /\ inputs' = inputs
  /\ step' = name
  /\ Commit(s)

\* generateCallId draws 16 random bytes: the new Call-ID is one nothing in the
\* gateway refers to.
Fresh(c) ==
  /\ c \notin DOMAIN sessions
  /\ c \notin transactions
  /\ \A k \in BagToSet(conts) : k.callId # c
  /\ \A t \in BagToSet(timers) : t.callId # c
  /\ \A i \in 1..Len(activeCalls) : activeCalls[i].callId # c
  /\ \A key \in DOMAIN inviteTransactions : key[1] # c

-----------------------------------------------------------------------------
(* Engine: rejectCall, and the hub's handler of incoming-sip-call *)

RejectCall(s, callId, status, after) ==
  IF callId \notin DOMAIN s.sessions
       \/ s.objs[s.sessions[callId]].direction # "incoming"
    THEN After(s, after, callId, Null, Null)
    ELSE LET o == s.objs[s.sessions[callId]]
             s1 == SendResponse(s, callId, o.txn, status, Null)
         IN CleanupSession(s1, callId, after, Null)

ActivePut(ac, callId, user, direction) ==
  LET e == [callId |-> callId, user |-> user, direction |-> direction]
  IN IF \E i \in 1..Len(ac) : ac[i].callId = callId
       THEN [i \in 1..Len(ac) |-> IF ac[i].callId = callId THEN e ELSE ac[i]]
       ELSE Append(ac, e)

\* sendToUser: true when the message went out on an open channel.
SendToUser(s, user) ==
  /\ user \in DOMAIN s.users
  /\ s.chans[s.users[user]].state = "open"

HubOnIncomingSipCall(s, callId, toUser) ==
  LET s1 == [s EXCEPT !.emitted =
                        Append(@, Event("incoming-sip-call", callId, toUser, Null))]
  IN IF toUser \in DOMAIN s1.users
       THEN LET s2 == [s1 EXCEPT !.activeCalls =
                                   ActivePut(@, callId, toUser, "incoming")]
            IN IF SendToUser(s2, toUser)
                 THEN s2
                 ELSE RejectCall(s2, callId, 480, "hubDelete")
       ELSE RejectCall(s1, callId, 404, "none")

-----------------------------------------------------------------------------
(* Engine: inbound INVITE *)

NewIncoming(callId, txn, rinfo) ==
  [FreeObj EXCEPT !.callId = callId, !.direction = "incoming",
                  !.state = "ringing", !.fromTag = "ft", !.toTag = "tt",
                  !.txn = txn, !.rinfo = rinfo, !.cseq = 1]

\* handleReInvite up to its await on the media-relay offer.
HandleReInvite(s, callId, txn, sdpOk) ==
  LET i == s.sessions[callId]
  IN IF sdpOk
       THEN [s EXCEPT !.conts =
               @ (+) One([Cont("reinvite", callId, txn, i, Null, "none")
                            EXCEPT !.tags = <<s.objs[i].fromTag,
                                              s.objs[i].toTag>>])]
       ELSE SendResponse(s, callId, txn, 500, Null)

\* handleIncomingInvite without validateSDP on the body of the INVITE.
HandleIncomingInvite_NoValidation(s, callId, txn, toUser, sdpOk) ==
  IF Cardinality(DOMAIN s.sessions) >= MaxConcurrentSessions
    THEN SendResponse(s, callId, txn, 503, Null)
  ELSE [StartCall(s, callId) EXCEPT !.conts =
          @ (+) One([Cont("invite", callId, txn, 0, toUser, "none")
                       EXCEPT !.rinfo = s.rinfo])]

\* handleIncomingInvite up to its await on the media-relay offer.
HandleIncomingInvite(s, callId, txn, toUser, sdpOk) ==
  IF Cardinality(DOMAIN s.sessions) >= MaxConcurrentSessions
    THEN SendResponse(s, callId, txn, 503, Null)
  ELSE IF ~sdpOk
    THEN SendResponse(s, callId, txn, 500, Null)
  ELSE [StartCall(s, callId) EXCEPT !.conts =
          @ (+) One([Cont("invite", callId, txn, 0, toUser, "none")
                       EXCEPT !.rinfo = s.rinfo])]

\* handleInvite without the look-up of the server-transaction store.
HandleInvite_NoReplay(s, callId, txn, toUser, sdpOk) ==
  IF callId \in DOMAIN s.sessions
       /\ s.objs[s.sessions[callId]].state = "established"
    THEN HandleReInvite([Touch(s, callId) EXCEPT !.metrics.reInvites = @ + 1],
                         callId, txn, sdpOk)
    ELSE HandleIncomingInvite(Touch(s, callId), callId, txn, toUser, sdpOk)

HandleInvite(s, callId, txn, toUser, sdpOk) ==
  LET key == <<callId, txn>>
  IN IF key \in DOMAIN s.inviteTransactions
       THEN LET last == s.inviteTransactions[key]
                s1 == [s EXCEPT !.metrics.retriedInvites = @ + 1]
            IN IF last.status # 0
                 THEN SendResponse(s1, callId, txn, last.status, last.body)
                 ELSE s1
     ELSE IF callId \in DOMAIN s.sessions
               /\ s.objs[s.sessions[callId]].state = "established"
       THEN HandleReInvite([Touch(s, callId) EXCEPT !.metrics.reInvites = @ + 1],
                         callId, txn, sdpOk)
     ELSE HandleIncomingInvite(Touch(s, callId), callId, txn, toUser, sdpOk)

UdpInvite(callId, txn, toUser, sdpOk, rinfo) ==
  /\ RoomForSession
  /\ Input("HandleInvite",
           HandleInvite([Cur EXCEPT !.rinfo = rinfo], callId, txn, toUser, sdpOk))

\* handleIncomingInvite from the return of the media-relay offer on.
IncomingInviteResume(s, k, ok) ==
  LET s0 == [s EXCEPT !.conts = @ (-) One(k)]
  IN IF ~ok
       THEN SendResponse(s0, k.callId, k.txn, 500, Null)
     ELSE LET i == Min(FreeSlots(s0))
              s1 == [s0 EXCEPT
                       !.inviteTransactions =
                          MapPut(@, <<k.callId, k.txn>>, NoResponse),
                       !.sessions = MapPut(@, k.callId, i),
                       !.objs[i] = NewIncoming(k.callId, k.txn, k.rinfo),
                       !.created[<<k.callId, k.txn>>] = IF @ < 2 THEN @ + 1 ELSE @,
                       !.relay[k.callId].live = TRUE,
                       !.metrics.activeSessions = @ + 1]
              s2 == SendResponse(s1, k.callId, k.txn, 100, Null)
              s3 == SendResponse(s2, k.callId, k.txn, 180, Null)
          IN HubOnIncomingSipCall(s3, k.callId, k.user)

OfferReturnsToInvite(k, ok) ==
  /\ k.op = "invite"
  /\ Internal("IncomingInviteResume", IncomingInviteResume(Cur, k, ok))

ReInviteResume(s, k, ok) ==
  LET s0 == [s EXCEPT !.conts = @ (-) One(k)]
  IN IF ~ok
       THEN SendResponse(s0, k.callId, k.txn, 500, Null)
     ELSE LET s1 == SendResponse(s0, k.callId, k.txn, 200, "sdp")
          IN [s1 EXCEPT !.emitted =
                Append(@, Event("media-renegotiation", k.callId,
                                s.objs[k.obj].user, Null))]

OfferReturnsToReInvite(k, ok) ==
  /\ k.op = "reinvite"
  /\ Internal("ReInviteResume", ReInviteResume(Cur, k, ok))

-----------------------------------------------------------------------------
(* Time *)

\* The timer that expires next: no pending timer is due before it.
Due(t) == \A x \in BagToSet(timers) : t.rem <= x.rem

Expired(t) == [t EXCEPT !.rem = 0]

\* Time passes until timer t is due.
Elapse(s, d) ==
  LET dec(t) == [t EXCEPT !.rem = @ - d]
      inc(t) == [t EXCEPT !.rem = @ + d]
  IN [s EXCEPT
        !.timers = [t \in {dec(x) : x \in BagToSet(s.timers)} |-> s.timers[inc(t)]],
        !.objs = [i \in ObjIds |->
                    IF s.objs[i].okSent /\ ~s.objs[i].hFired
                      THEN [s.objs[i] EXCEPT !.sinceOk =
                              IF @ + d > TIMER_H THEN TIMER_H + 1 ELSE @ + d]
                      ELSE s.objs[i]]]

-----------------------------------------------------------------------------
(* Engine: outbound call *)

\* session.webrtcClientId: set on outgoing sessions only.
ClientId(o) == IF o.direction = "outgoing" THEN o.user ELSE Null

\* The branch makeCallToSip generates for its INVITE, and one that
\* generateBranch returns later.
InviteBranch == "z9hG4bK-invite"
NewBranch == "z9hG4bK-later"

NewOutgoing(callId, user, cseq) ==
  [FreeObj EXCEPT !.callId = callId, !.direction = "outgoing",
                  !.state = "calling", !.fromTag = "ft", !.user = user,
                  !.cseq = cseq, !.viaBranch = InviteBranch]

\* makeCallToSip without the check of the store's size.
MakeCall_NoCapacityCheck(s, callId, user, sdpOk) ==
  IF ~sdpOk
    THEN [HubOnCallFailed(s, user, "error") EXCEPT !.thrown = "error"]
  ELSE [StartCall(s, callId) EXCEPT !.conts =
          @ (+) One(Cont("makeCall", callId, Null, 0, user, "none"))]

\* makeCallToSip up to its await on the media-relay offer.
MakeCall(s, callId, user, sdpOk) ==
  IF Cardinality(DOMAIN s.sessions) >= MaxConcurrentSessions
    THEN [s EXCEPT !.thrown = "Maximum concurrent sessions reached"]
  ELSE IF ~sdpOk
    THEN [HubOnCallFailed(s, user, "error") EXCEPT !.thrown = "error"]
  ELSE [StartCall(s, callId) EXCEPT !.conts =
          @ (+) One(Cont("makeCall", callId, Null, 0, user, "none"))]

MakeCallToSip(callId, user, sdpOk) ==
  /\ Fresh(callId)
  /\ RoomForSession
  /\ Input("MakeCall", MakeCall(Cur, callId, user, sdpOk))

\* makeCallToSip from the return of the media-relay offer on; cseq is the
\* number it drew at its start, first used here.
MakeCallResume(s, k, r, cseq) ==
  LET s0 == [s EXCEPT !.conts = @ (-) One(k),
                      !.relay[k.callId].live = (@ \/ r # "error")]
  IN IF r # "ok"
       THEN [HubOnCallFailed(s0, k.user, "error") EXCEPT !.thrown = "error"]
     ELSE LET i == Min(FreeSlots(s0))
              s1 == [s0 EXCEPT
                       !.sessions = MapPut(@, k.callId, i),
                       !.objs[i] = NewOutgoing(k.callId, k.user, cseq),
                       !.metrics.activeSessions = @ + 1,
                       !.transactions = @ \cup {k.callId},
                       !.timers = @ (+) One(Timer("B", 0, k.callId, k.user,
                                                  TIMER_B, TRUE))]
          IN SendRequest(s1, "INVITE", k.callId, cseq, InviteBranch, SipServer)

OfferReturnsToMakeCall(k, r, cseq) ==
  /\ k.op = "makeCall"
  /\ Internal("MakeCallResume", MakeCallResume(Cur, k, r, cseq))

\* handleInviteResponse for a response from the wire, up to its await.
HandleInviteResponse(s, callId, status, sdpOk) ==
  IF callId \notin DOMAIN s.sessions
    THEN s
  ELSE LET i == s.sessions[callId]
           cu == ClientId(s.objs[i])
       IN IF status < 200
            THEN IF status = 180
                   THEN [s EXCEPT !.emitted =
                           Append(@, Event("sip-ringing", callId, cu, Null))]
                   ELSE s
          ELSE IF status < 300
            THEN LET s1 == [s EXCEPT !.objs[i].toTag = "tt",
                                     !.objs[i].state = "established"]
                 IN IF ~sdpOk
                      THEN CleanupSession(HubOnCallFailed(s1, cu, "error"),
                                          callId, "none", Null)
                      ELSE [s1 EXCEPT !.conts =
                              @ (+) One(Cont("answerOut", callId, Null, i, cu,
                                             "none"))]
          ELSE CleanupSession(s, callId, "emitFailed", cu)

\* handleResponse: a response datagram matching a client transaction.
HandleResponse(s, callId, status, sdpOk) ==
  LET s1 == [s EXCEPT !.timers =
               @ (-) SetToBag({t \in BagToSet(s.timers) :
                                 t.kind = "B" /\ t.callId = callId})]
      s2 == HandleInviteResponse(Touch(s1, callId), callId, status, sdpOk)
  IN IF status >= 200
       THEN [s2 EXCEPT !.transactions = @ \ {callId}]
       ELSE s2

UdpResponse(callId, status, sdpOk) ==
  /\ callId \in transactions
  /\ status < 200 \/ status >= 300 => sdpOk
  /\ Input("HandleResponse", HandleResponse(Cur, callId, status, sdpOk))

\* The Timer-B callback registered by sendSipMessage.
TimerB(s, t) ==
  LET s0 == [s EXCEPT !.timers = @ (-) One(t)]
      s1 == IF t.callId \in s0.transactions /\ t.callId \in DOMAIN s0.sessions
              THEN CleanupSession(
                     HubOnCallFailed(Touch(s0, t.callId),
                                     ClientId(s0.objs[s0.sessions[t.callId]]),
                                     "Request Timeout"),
                     t.callId, "none", Null)
              ELSE s0
  IN [s1 EXCEPT !.transactions = @ \ {t.callId}]

TransactionTimeout(t) ==
  /\ t.kind = "B"
  /\ Due(t)
  /\ Internal("TimerB", TimerB(Elapse(Cur, t.rem), Expired(t)))

\* handleInviteResponse emitting call-answered before it sends the ACK.
InviteResponseResume_EmitFirst(s, k, ok) ==
  LET s0 == [s EXCEPT !.conts = @ (-) One(k)]
      cu == ClientId(s.objs[k.obj])
  IN IF ~ok
       THEN CleanupSession(HubOnCallFailed(s0, cu, "error"), k.callId, "none", Null)
       ELSE SendRequest([s0 EXCEPT !.emitted =
                           Append(@, Event("call-answered", k.callId, cu, Null))],
                        "ACK", k.callId, s.objs[k.obj].cseq, NewBranch, Contact)

\* handleInviteResponse from the return of the media-relay answer on.
InviteResponseResume(s, k, ok) ==
  LET s0 == [s EXCEPT !.conts = @ (-) One(k)]
      cu == ClientId(s.objs[k.obj])
  IN IF ~ok
       THEN CleanupSession(HubOnCallFailed(s0, cu, "error"), k.callId, "none", Null)
       ELSE LET s1 == SendRequest(s0, "ACK", k.callId, s.objs[k.obj].cseq,
                                  NewBranch, Contact)
            IN [s1 EXCEPT !.emitted =
                  Append(@, [Event("call-answered", k.callId, cu, Null)
                               EXCEPT !.sent = Len(s1.out)])]

AnswerReturnsToInviteResponse(k, ok) ==
  /\ k.op = "answerOut"
  /\ Internal("InviteResponseResume", InviteResponseResume(Cur, k, ok))

-----------------------------------------------------------------------------
(* Engine: answerSipCall *)

\* answerSipCall up to its await on the media-relay answer.
AnswerSipCall(s, callId, user, sdpOk) ==
  IF callId \notin DOMAIN s.sessions
    THEN s
  ELSE IF ~sdpOk
    THEN CleanupSession(Touch(s, callId), callId, "none", user)
  ELSE LET i == s.sessions[callId]
           s1 == IF s.objs[i].state # "ringing" THEN Touch(s, callId) ELSE s
       IN [s1 EXCEPT !.objs[i].state = "answered",
                     !.objs[i].user = user,
                     !.conts = @ (+) One(Cont("answerIn", callId, Null, i, user,
                                              "none"))]

\* answerSipCall from the return of the media-relay answer on.
AnswerSipCallResume(s, k, ok) ==
  LET s0 == [s EXCEPT !.conts = @ (-) One(k)]
      i == k.obj
      o == s.objs[i]
  IN IF ~ok \/ o.direction # "incoming"
       THEN CleanupSession(s0, k.callId, "none", k.user)
     ELSE LET s1 == SendResponse(s0, o.callId, o.txn, 200, "sdp")
              s2 == [s1 EXCEPT !.objs[i].rcount = 0,
                               !.objs[i].rint = T1,
                               !.objs[i].okSent = TRUE,
                               !.objs[i].sinceOk = IF o.okSent THEN @ ELSE 0,
                               !.objs[i].quiet = IF o.okSent THEN FALSE ELSE @]
              s3 == ArmHeld(s2, "H", i, k.callId, k.user, TIMER_H)
          IN ArmHeld(s3, "R", i, k.callId, k.user, T1)

AnswerReturnsToAnswerSipCall(k, ok) ==
  /\ k.op = "answerIn"
  /\ Internal("AnswerSipCallResume", AnswerSipCallResume(Cur, k, ok))

\* retransmit200OK with the interval doubled without the T2 ceiling.
Retransmit200OK_Uncapped(s, t) ==
  LET s0 == [s EXCEPT !.timers = @ (-) One(t)]
      i == t.obj
      o == s.objs[i]
  IN IF o.ackReceived \/ o.rcount >= MaxRetransmits
       THEN s0
     ELSE LET next == o.rint * 2
              s1 == SendResponse(s0, o.callId, o.txn, 200, "sdp")
              s2 == [s1 EXCEPT !.objs[i].rcount = @ + 1,
                               !.objs[i].rint = next,
                               !.objs[i].rtotal =
                                  IF @ < RetransCap THEN @ + 1 ELSE @]
          IN ArmHeld(s2, "R", i, t.callId, t.user, next)

\* The retransmit200OK closure of answerSipCall.
Retransmit200OK(s, t) ==
  LET s0 == [s EXCEPT !.timers = @ (-) One(t)]
      i == t.obj
      o == s.objs[i]
  IN IF o.ackReceived \/ o.rcount >= MaxRetransmits
       THEN s0
     ELSE LET next == IF o.rint * 2 < T2 THEN o.rint * 2 ELSE T2
              s1 == SendResponse(s0, o.callId, o.txn, 200, "sdp")
              s2 == [s1 EXCEPT !.objs[i].rcount = @ + 1,
                               !.objs[i].rint = next,
                               !.objs[i].rtotal =
                                  IF @ < RetransCap THEN @ + 1 ELSE @]
          IN ArmHeld(s2, "R", i, t.callId, t.user, next)

RetransmitTimer(t) ==
  /\ t.kind = "R"
  /\ Due(t)
  /\ Internal("Retransmit200OK", Retransmit200OK(Elapse(Cur, t.rem), Expired(t)))

\* The ackTimeoutTimer closure of answerSipCall (Timer H).
AckTimeout(s, t) ==
  LET s0 == [s EXCEPT !.timers = @ (-) One(t)]
      i == t.obj
  IN IF s.objs[i].ackReceived
       THEN s0
     ELSE LET s1 == [s0 EXCEPT !.objs[i].hFired = TRUE,
                               !.objs[i].failedEv = IF @ < 2 THEN @ + 1 ELSE @]
              s2 == HubOnCallFailed(s1, t.user, "ACK timeout")
              s3 == IF t.callId \in DOMAIN s2.sessions
                       /\ s2.sessions[t.callId] # i
                      THEN Touch(s2, t.callId)
                      ELSE s2
          IN CleanupSession(s3, t.callId, "none", Null)

TimerH(t) ==
  /\ t.kind = "H"
  /\ Due(t)
  /\ Internal("AckTimeout", AckTimeout(Elapse(Cur, t.rem), Expired(t)))

-----------------------------------------------------------------------------
(* Engine: ACK, BYE, CANCEL, hangup *)

HandleAck(s, callId) ==
  IF callId \notin DOMAIN s.sessions
    THEN s
  ELSE LET i == s.sessions[callId]
           o == s.objs[i]
           s1 == ClearHeld(ClearHeld(s, "R", i), "H", i)
           s2 == [s1 EXCEPT !.objs[i].ackReceived = TRUE,
                            !.objs[i].state = "established",
                            !.objs[i].quiet = FALSE]
       IN IF o.txn # Null
            THEN [s2 EXCEPT !.inviteTransactions = MapRemove(@, <<callId, o.txn>>)]
            ELSE s2

UdpAck(callId) ==
  /\ callId \in DOMAIN sessions
  /\ Input("HandleAck", HandleAck(Cur, callId))

HandleBye(s, callId) ==
  LET s1 == SendResponse(s, callId, Null, 200, Null)
  IN IF callId \notin DOMAIN s1.sessions
       THEN s1
     ELSE LET o == s1.objs[s1.sessions[callId]]
              s2 == IF o.direction = "outgoing"
                      THEN HubOnCallEnded(s1, ClientId(o))
                      ELSE HubOnSipCallEnded(s1, callId)
          IN CleanupSession(Touch(s2, callId), callId, "none", Null)

UdpBye(callId) ==
  /\ Input("HandleBye", HandleBye(Cur, callId))

HandleCancel(s, callId) ==
  LET s1 == SendResponse(s, callId, Null, 200, Null)
  IN IF callId \notin DOMAIN s1.sessions
       THEN s1
     ELSE LET o == s1.objs[s1.sessions[callId]]
              s2 == IF o.direction = "incoming"
                      THEN SendResponseTo(s1, callId, o.txn, 487, Null, o.rinfo)
                      ELSE HubOnCallEnded(s1, ClientId(o))
          IN CleanupSession(Touch(s2, callId), callId, "none", Null)

UdpCancel(callId) ==
  /\ Input("HandleCancel", HandleCancel(Cur, callId))

\* hangup answering the From URI of an incoming dialog's INVITE, not the
\* address the INVITE came from.
Hangup_ToFromUri(s, callId, after) ==
  IF callId \notin DOMAIN s.sessions
    THEN After(s, after, callId, Null, Null)
  ELSE LET i == s.sessions[callId]
           o == s.objs[i]
           s1 == IF o.state \in {"established", "answered"}
                   THEN SendRequest([s EXCEPT !.objs[i].cseq = @ + 1], "BYE",
                                    callId, o.cseq + 1, NewBranch,
                                    IF o.direction = "outgoing"
                                      THEN SipServer ELSE FromUri)
                 ELSE IF o.direction = "outgoing" /\ o.state = "calling"
                   THEN SendRequest(s, "CANCEL", callId, o.cseq, o.viaBranch,
                                    SipServer)
                 ELSE s
       IN CleanupSession(Touch(s1, callId), callId, after, Null)

Hangup(s, callId, after) ==
  IF callId \notin DOMAIN s.sessions
    THEN After(s, after, callId, Null, Null)
  ELSE LET i == s.sessions[callId]
           o == s.objs[i]
           s1 == IF o.state \in {"established", "answered"}
                   THEN SendRequest([s EXCEPT !.objs[i].cseq = @ + 1], "BYE",
                                    callId, o.cseq + 1, NewBranch,
                                    IF o.direction = "outgoing"
                                      THEN SipServer ELSE o.rinfo)
                 ELSE IF o.direction = "outgoing" /\ o.state = "calling"
                   THEN SendRequest(s, "CANCEL", callId, o.cseq, o.viaBranch,
                                    SipServer)
                 ELSE s
       IN CleanupSession(Touch(s1, callId), callId, after, Null)

\* hangup and cleanupSession return at once: nothing is sent or awaited.
ReturnsAtOnce(s, callId) ==
  \/ callId \notin DOMAIN s.sessions
  \/ s.objs[s.sessions[callId]].state = "terminating"

\* The loop of the hub's close handler over callsToCleanup: await hangup,
\* then activeCalls.delete, call by call.  It stops at the first hangup that
\* suspends, keeping the username and the calls still to do.
RECURSIVE CloseLoop(_, _, _)
CloseLoop(s, user, calls) ==
  IF calls = <<>>
    THEN s
  ELSE LET c == Head(calls)
       IN IF ReturnsAtOnce(s, c)
            THEN CloseLoop([s EXCEPT !.activeCalls = ActiveRemoveCall(@, c)],
                           user, Tail(calls))
          ELSE LET s1 == Hangup(s, c, "close")
                   k0 == Cont("cleanup", c, Null, 0, Null, "close")
               IN [s1 EXCEPT !.conts =
                     (@ (-) One(k0))
                        (+) One([k0 EXCEPT !.user = user, !.rest = Tail(calls)])]

\* shutdown after its await Promise.all(hangupPromises): once no hangup it
\* started is pending, it clears inviteTransactions and closes the socket.
ShutdownJoin(s) ==
  IF \E k \in BagToSet(s.conts) : k.after = "shutdown"
    THEN [s EXCEPT !.run.shutdown = "waiting"]
    ELSE [s EXCEPT !.run.shutdown = "done", !.inviteTransactions = <<>>]

\* The hangups shutdown starts, one per key of this.sessions, each run up
\* to its first await.
RECURSIVE HangupAll(_, _)
HangupAll(s, callIds) ==
  IF callIds = {}
    THEN s
  ELSE LET c == CHOOSE c \in callIds : TRUE
       IN HangupAll(Hangup(s, c, "shutdown"), callIds \ {c})

\* shutdown up to its await.
ShutdownStart(s) ==
  ShutdownJoin(HangupAll([s EXCEPT !.run.isRunning = FALSE],
                         DOMAIN s.sessions))

\* shutdown() called by the embedding application.
Shutdown ==
  /\ run.shutdown = "no"
  /\ Input("Shutdown", ShutdownStart(Cur))

\* cleanupSession after the media-relay delete returned or threw.
CleanupResume(s, k) ==
  LET s1 == [s EXCEPT !.conts = @ (-) One(k),
                      !.metrics.activeSessions = @ - 1,
                      !.sessions = MapRemove(@, k.callId)]
  IN IF k.after = "close"
       THEN CloseLoop([s1 EXCEPT !.activeCalls = ActiveRemoveCall(@, k.callId)],
                      k.user, k.rest)
     ELSE IF k.after = "shutdown"
       THEN ShutdownJoin(s1)
       ELSE After(s1, k.after, k.callId, k.user, "sip-failure")

\* hangup called by the embedding application for a call it holds.
ApiHangup(callId) ==
  /\ callId \in DOMAIN sessions
  /\ Input("Hangup", Hangup(Cur, callId, "none"))

\* cleanupSession resumes when the media-relay delete has returned or thrown.
DeleteReturns(k) ==
  /\ k.op = "cleanup"
  /\ Internal("CleanupResume", CleanupResume(Cur, k))

-----------------------------------------------------------------------------
(* Engine: INFO, OPTIONS and the other methods *)

\* handleDTMFNotification on the text of an INFO.  longCallId: the text has
\* a line starting with "call-id:" (any case), which the compact form "i:"
\* is not; sig, dur: the Signal= and Duration= of the body (Null and
\* NoDuration when absent or malformed).
HandleDTMFNotification(s, callId, longCallId, sig, dur) ==
  IF ~longCallId
    THEN s
  ELSE IF sig = Null
    THEN s
  ELSE [s EXCEPT !.metrics.dtmfDigitsReceived = @ + 1,
                 !.emitted = Append(@, DtmfEvent(callId, sig,
                                      IF dur = NoDuration THEN DefaultDuration ELSE dur))]

\* handleInfo on a parsed INFO; ct: its Content-Type contains
\* application/dtmf-relay.  buildSipMessage writes the Call-ID header in its
\* long form.
HandleInfo(s, callId, ct, sig, dur) ==
  IF ct
    THEN SendResponse(HandleDTMFNotification(s, callId, TRUE, sig, dur),
                      callId, Null, 200, Null)
    ELSE SendResponse(s, callId, Null, 200, Null)

\* The socket's message handler on an INFO datagram.  The text of the
\* datagram contains application/dtmf-relay when its Content-Type does (ct)
\* or when some other part of it does (elsewhere); such a datagram goes to
\* handleDTMFNotification and the handler returns.
SocketOnInfo(s, callId, longCallId, ct, elsewhere, sig, dur) ==
  IF ct \/ elsewhere
    THEN HandleDTMFNotification(s, callId, longCallId, sig, dur)
    ELSE HandleInfo(s, callId, FALSE, sig, dur)

UdpInfo(callId, longCallId, ct, elsewhere, sig, dur) ==
  /\ callId \in CallIds
  /\ Input("HandleInfo", SocketOnInfo(Cur, callId, longCallId, ct, elsewhere, sig, dur))

\* handleRequest: case 'OPTIONS'.
UdpOptions(callId) ==
  /\ callId \in CallIds
  /\ Input("HandleOptions", SendResponse(Cur, callId, Null, 200, Null))

\* handleRequest: default.
UdpOtherMethod(callId) ==
  /\ callId \in CallIds
  /\ Input("HandleOther", SendResponse(Cur, callId, Null, 501, Null))

-----------------------------------------------------------------------------
(* Hub: messages of the browser peers *)

\* wss.on('connection'): a new channel, which no registry entry refers to.
\* A channel of the hub: readyState, the username variable of its
\* connection handler, ws.isAlive, and (history) the pings sent to it since
\* its last pong.
NoChannel ==
  [state |-> "closed", username |-> Null, isAlive |-> TRUE, unanswered |-> 0]

NewChannel == [NoChannel EXCEPT !.state = "open"]

Connect(w) ==
  /\ chans[w].state = "closed"
  /\ \A u \in DOMAIN users : users[u] # w
  /\ Internal("Connect", [Cur EXCEPT !.chans[w] = NewChannel])

\* case 'register' with a well-formed username.
Register(w, u) ==
  /\ chans[w].state = "open"
  /\ u \notin DOMAIN users
  /\ Internal("Register", [Cur EXCEPT !.chans[w].username = u,
                                      !.users = MapPut(@, u, w)])

Owned(ac, u) == SelectSeq(ac, LAMBDA e : e.user = u /\ e.direction = "incoming")

\* A message the hub passes from one browser peer to another; delivered is
\* what sendToUser returned.
Forward(s, type, from, to) ==
  [s EXCEPT !.wsOut = Append(@, [type |-> type, from |-> from, to |-> to,
                                 delivered |-> SendToUser(s, to)])]

\* case 'answer' of a registered peer; to is message.to, or Null.
HubOnAnswer(s, u, to, sdpOk) ==
  IF Owned(s.activeCalls, u) # <<>>
    THEN AnswerSipCall(s, Owned(s.activeCalls, u)[1].callId, u, sdpOk)
  ELSE IF to = Null
    THEN s
  ELSE Forward(s, "answer", u, to)

HubAnswer(w, to, sdpOk) ==
  LET u == chans[w].username
  IN /\ chans[w].state = "open"
     /\ u # Null
     /\ Input(IF Owned(activeCalls, u) # <<>> THEN "AnswerSipCall" ELSE "Answer",
              HubOnAnswer(Cur, u, to, sdpOk))

Entry(ac, callId) == SelectSeq(ac, LAMBDA e : e.callId = callId)

\* callData.webrtcUser === username for the entry of callId.
OwnsEntry(ac, callId, u) ==
  /\ Entry(ac, callId) # <<>>
  /\ Entry(ac, callId)[1].user = u

\* case 'hangup' acting on any entry of the active-call index, whoever
\* owns it.
HubOnHangup_NoOwnerCheck(s, u, callId) ==
  IF Entry(s.activeCalls, callId) # <<>>
    THEN Hangup(s, callId, "hubDelete")
    ELSE s

\* case 'hangup' of a registered peer, with message.callId and no message.to.
HubOnHangup(s, u, callId) ==
  IF OwnsEntry(s.activeCalls, callId, u)
    THEN Hangup(s, callId, "hubDelete")
    ELSE s

HubHangup(w, callId) ==
  LET u == chans[w].username
  IN /\ chans[w].state = "open"
     /\ u # Null
     /\ Input(IF OwnsEntry(activeCalls, callId, u) THEN "Hangup"
              ELSE IF Entry(activeCalls, callId) # <<>> THEN "HangupNotOwner"
              ELSE "HangupNoEntry",
              HubOnHangup(Cur, u, callId))

\* case 'reject' of a registered peer, with message.callId and no message.to.
HubOnReject(s, u, callId) ==
  IF /\ OwnsEntry(s.activeCalls, callId, u)
     /\ Entry(s.activeCalls, callId)[1].direction = "incoming"
    THEN RejectCall(Touch(s, callId), callId, 603, "hubDelete")
    ELSE s

HubReject(w, callId) ==
  LET u == chans[w].username
  IN /\ chans[w].state = "open"
     /\ u # Null
     /\ Input(IF /\ OwnsEntry(activeCalls, callId, u)
                 /\ Entry(activeCalls, callId)[1].direction = "incoming"
                THEN "RejectCall"
              ELSE IF Entry(activeCalls, callId) # <<>> THEN "RejectNotOwner"
              ELSE "RejectNoEntry",
              HubOnReject(Cur, u, callId))

\* case 'call-response' of a registered peer: accepted is message.accepted,
\* to is message.to.
HubOnCallResponse(s, u, to, accepted) ==
  IF Owned(s.activeCalls, u) # <<>>
    THEN IF accepted
           THEN s
           ELSE LET c == Owned(s.activeCalls, u)[1].callId
                IN RejectCall(Touch(s, c), c, 603, "hubDelete")
    ELSE Forward(s, "call-response", u, to)

HubCallResponse(w, to, accepted) ==
  LET u == chans[w].username
  IN /\ chans[w].state = "open"
     /\ u # Null
     /\ Input(IF Owned(activeCalls, u) # <<>> /\ ~accepted THEN "RejectCall"
              ELSE "CallResponse",
              HubOnCallResponse(Cur, u, to, accepted))

\* The call-ids of the active-call entries of a user, in insertion order.
CallsOf(ac, u) ==
  LET mine == SelectSeq(ac, LAMBDA e : e.user = u)
  IN [i \in 1..Len(mine) |-> mine[i].callId]

\* ws.on('close') of a channel.
OnClose(s, w) ==
  LET u == s.chans[w].username
      s1 == [s EXCEPT !.chans[w].state = "closed"]
  IN IF u = Null
       THEN s1
       ELSE CloseLoop([s1 EXCEPT !.users = MapRemove(@, u)], u,
                      CallsOf(s1.activeCalls, u))

Close(w) ==
  /\ chans[w].state = "open"
  /\ Input("Close", OnClose(Cur, w))

\* ws.on('pong'): the browser answers the ping it was sent.
Pong(w) ==
  /\ chans[w].state = "open"
  /\ chans[w].unanswered > 0
  /\ Internal("Pong", [Cur EXCEPT !.chans[w].isAlive = TRUE,
                                  !.chans[w].unanswered = 0])

\* The heartbeat's visit of one client: terminate it (its close handler
\* runs) when isAlive is false, else clear isAlive and ping.
HeartbeatOne(s, w) ==
  IF s.chans[w].state # "open"
    THEN s
  ELSE IF ~s.chans[w].isAlive
    THEN OnClose(s, w)
  ELSE [s EXCEPT !.chans[w].isAlive = FALSE,
                 !.chans[w].unanswered = @ + 1]

RECURSIVE HeartbeatAll(_, _)
HeartbeatAll(s, ws) ==
  IF ws = {}
    THEN s
    ELSE LET w == CHOOSE x \in ws : TRUE
         IN HeartbeatAll(HeartbeatOne(s, w), ws \ {w})

\* One tick of the heartbeat interval over wss.clients.
Heartbeat ==
  /\ \E w \in DOMAIN chans : chans[w].state = "open"
  /\ Internal("Heartbeat", HeartbeatAll(Cur, DOMAIN chans))

-----------------------------------------------------------------------------
(* Engine: the message codec (parseSipMessage, buildSipMessage) *)

\* A text is the sequence of its lines (the pieces between CRLFs).  A line is
\* a request line "<name> <value> SIP/2.0", a status line
\* "SIP/2.0 <status> <value>", a header line "<name>: <value>", or plain text
\* (the empty line, a line of the body).
Line(kind, name, value, status) ==
  [kind |-> kind, name |-> name, value |-> value, status |-> status]

BlankLine == Line("text", "", "", 0)

\* No message is in the codec.
NoWire == [stage |-> "none", message |-> <<>>, text |-> <<>>, parsed |-> <<>>]

\* The order in which buildSipMessage meets the header names.
HeaderOrder == <<"via", "to", "call-id", "Call-ID", "i", "content-length">>

\* A header value of a message object: a string, or an array of strings.
Str(v) == [multi |-> FALSE, vals |-> <<v>>]

Arr(vs) == [multi |-> TRUE, vals |-> vs]

\* String.prototype.toLowerCase on the header names that occur.
toLowerCase(name) ==
  CASE name = "Via" -> "via"
    [] name = "To" -> "to"
    [] name = "Call-ID" -> "call-id"
    [] name = "Content-Length" -> "content-length"
    [] OTHER -> name

\* String.prototype.trim on the header values that occur.
trim(value) == IF value = " b" THEN "b" ELSE value

capitalizeHeader(name) ==
  LET n == toLowerCase(name)
  IN CASE n = "call-id" -> "Call-ID"
       [] n = "cseq" -> "CSeq"
       [] n = "from" -> "From"
       [] n = "to" -> "To"
       [] n = "via" -> "Via"
       [] n = "contact" -> "Contact"
       [] n = "content-type" -> "Content-Type"
       [] n = "content-length" -> "Content-Length"
       [] n = "max-forwards" -> "Max-Forwards"
       [] n = "user-agent" -> "User-Agent"
       [] n = "allow" -> "Allow"
       [] n = "supported" -> "Supported"
       [] n = "accept" -> "Accept"
       [] n = "record-route" -> "Record-Route"
       [] OTHER -> name

\* The decimal numeral of a byte count.
Numeral(n) ==
  CASE n = 0 -> "0" [] n = 1 -> "1" [] n = 2 -> "2" [] n = 3 -> "3"
    [] n = 4 -> "4" [] n = 5 -> "5" [] n = 6 -> "6" [] n = 7 -> "7"
    [] n = 8 -> "8" [] OTHER -> "9"

\* Buffer.from(body, 'utf8').length of a body given by its lines.
RECURSIVE ByteLength(_)
ByteLength(body) ==
  IF Len(body) = 1
    THEN Len(body[1])
    ELSE Len(body[1]) + 2 + ByteLength(Tail(body))

\* The header lines of Object.entries(headers), in the order of names.
RECURSIVE HeaderLines(_, _)
HeaderLines(headers, names) ==
  IF names = <<>>
    THEN <<>>
  ELSE LET name == Head(names)
           rest == HeaderLines(headers, Tail(names))
       IN IF name \notin DOMAIN headers
            THEN rest
            ELSE [n \in 1..Len(headers[name].vals) |->
                    Line("header", capitalizeHeader(name),
                         headers[name].vals[n], 0)] \o rest

buildSipMessage(message) ==
  LET first == IF message.isResponse
                 THEN Line("status", "", message.reason, message.status)
                 ELSE Line("request", message.method, message.uri, 0)
      hasContentLength ==
        \E k \in DOMAIN message.headers : toLowerCase(k) = "content-length"
      length == IF message.body = <<"">> THEN 0 ELSE ByteLength(message.body)
  IN <<first>>
       \o HeaderLines(message.headers, HeaderOrder)
       \o (IF hasContentLength
             THEN <<>>
             ELSE <<Line("header", "Content-Length", Numeral(length), 0)>>)
       \o <<BlankLine>>
       \o [n \in 1..Len(message.body) |-> Line("text", "", message.body[n], 0)]

\* addHeader keeping the case of the name as written.
addHeader_CaseKept(headers, name, value) ==
  IF name = "via"
    THEN IF "via" \in DOMAIN headers
           THEN [headers EXCEPT !["via"] = Arr(Append(@.vals, value))]
           ELSE ("via" :> Arr(<<value>>)) @@ headers
    ELSE (name :> Str(value)) @@ headers

addHeader(headers, name, value) ==
  LET normalized == toLowerCase(name)
  IN IF normalized = "via"
       THEN IF "via" \in DOMAIN headers
              THEN [headers EXCEPT !["via"] = Arr(Append(@.vals, value))]
              ELSE ("via" :> Arr(<<value>>)) @@ headers
       ELSE (normalized :> Str(value)) @@ headers

CompactMap ==
  <<<<"v", "via">>, <<"f", "from">>, <<"t", "to">>, <<"i", "call-id">>,
    <<"m", "contact">>, <<"c", "content-type">>, <<"l", "content-length">>,
    <<"k", "supported">>>>

RECURSIVE expandCompactHeaders(_, _)
expandCompactHeaders(headers, map) ==
  IF map = <<>>
    THEN headers
  ELSE LET compact == Head(map)[1]
           full == Head(map)[2]
       IN IF compact \in DOMAIN headers /\ headers[compact].vals # <<"">>
            THEN expandCompactHeaders(
                   (full :> headers[compact]) @@ MapRemove(headers, compact),
                   Tail(map))
            ELSE expandCompactHeaders(headers, Tail(map))

\* The loop of parseSipMessage over the lines after the first, up to the
\* first empty line: the headers read, and the index of that line.
RECURSIVE ParseHeaders(_, _, _)
ParseHeaders(lines, i, headers) ==
  IF i > Len(lines) \/ lines[i] = BlankLine
    THEN [headers |-> headers, i |-> i]
  ELSE IF lines[i].kind = "header"
    THEN ParseHeaders(lines, i + 1,
                      addHeader(headers, lines[i].name, trim(lines[i].value)))
  ELSE ParseHeaders(lines, i + 1, headers)

parseSipMessage(lines) ==
  LET firstLine == lines[1]
      read == ParseHeaders(lines, 2, <<>>)
      body == SubSeq(lines, read.i + 1, Len(lines))
  IN [isResponse |-> firstLine.kind = "status",
      status |-> firstLine.status,
      reason |-> IF firstLine.kind = "status" THEN firstLine.value ELSE "",
      method |-> IF firstLine.kind = "status" THEN "" ELSE firstLine.name,
      uri |-> IF firstLine.kind = "status" THEN "" ELSE firstLine.value,
      headers |-> expandCompactHeaders(read.headers, CompactMap),
      body |-> IF body = <<>> THEN <<"">>
               ELSE [n \in 1..Len(body) |-> body[n].value]]

\* The message objects tried: a request and a response; Via as a string, as
\* a list or absent; To with and without a blank before its value; Call-ID
\* under three spellings; Content-Length present or absent; three bodies.
Bodies == {<<"">>, <<"v=0">>, <<"v=0", "m=a">>}

ViaValues == {Str("v1"), Arr(<<"v1">>), Arr(<<"v1", "v2">>)}

HeaderMaps(body) ==
  {via @@ ("to" :> to) @@ (id :> Str("c")) @@ cl :
     via \in {<<>>} \cup {"via" :> v : v \in ViaValues},
     to \in {Str("b"), Str(" b")},
     id \in {"call-id", "Call-ID", "i"},
     cl \in {<<>>, "content-length" :> Str(Numeral(
               IF body = <<"">> THEN 0 ELSE ByteLength(body)))}}

MessagesOf(b) ==
  {[isResponse |-> r, status |-> IF r THEN 200 ELSE 0,
    reason |-> IF r THEN "OK" ELSE "", method |-> IF r THEN "" ELSE "INVITE",
    uri |-> IF r THEN "" ELSE "sip:bob@pbx", headers |-> h, body |-> b] :
     r \in BOOLEAN, h \in HeaderMaps(b)}

Messages == UNION {MessagesOf(b) : b \in Bodies}

\* The codec at work: a message object is serialized, the text is parsed.
Serialize ==
  /\ wire.stage = "message"
  /\ wire' = [wire EXCEPT !.stage = "text",
                          !.text = buildSipMessage(wire.message)]
  /\ UNCHANGED <<sessions, objs, inviteTransactions, transactions, conts,
                 timers, metrics, inputs, users, chans, activeCalls, created,
                 relay, step, out, emitted, thrown, run, wsOut>>

Parse ==
  /\ wire.stage = "text"
  /\ wire' = [wire EXCEPT !.stage = "parsed",
                          !.parsed = parseSipMessage(wire.text)]
  /\ UNCHANGED <<sessions, objs, inviteTransactions, transactions, conts,
                 timers, metrics, inputs, users, chans, activeCalls, created,
                 relay, step, out, emitted, thrown, run, wsOut>>

-----------------------------------------------------------------------------
Init ==
  /\ sessions = <<>>
  /\ objs = [i \in ObjIds |-> FreeObj]
  /\ inviteTransactions = <<>>
  /\ transactions = {}
  /\ conts = EmptyBag
  /\ timers = EmptyBag
  /\ metrics = [activeSessions |-> 0, retriedInvites |-> 0,
                dtmfDigitsReceived |-> 0, reInvites |-> 0]
  /\ inputs = 0
  /\ users = <<>>
  /\ chans = [w \in Channels |-> NoChannel]
  /\ activeCalls = <<>>
  /\ created = [key \in CallIds \X Txns |-> 0]
  /\ relay = [c \in CallIds |-> NoRelay]
  /\ step = "init"
  /\ out = <<>>
  /\ emitted = <<>>
  /\ thrown = Null
  /\ wsOut = <<>>
  /\ run = Running
  /\ wire = NoWire


Next ==
  \/ \E c \in CallIds, x \in Txns, u \in Users, ok \in BOOLEAN, a \in Origins :
        UdpInvite(c, x, u, ok, a)
  \/ \E c \in CallIds : UdpAck(c)
  \/ \E c \in CallIds : UdpBye(c)
  \/ \E c \in CallIds : UdpCancel(c)
  \/ \E c \in CallIds, st \in {100, 180, 200, 486}, ok \in BOOLEAN : UdpResponse(c, st, ok)
  \/ \E c \in CallIds, u \in Users, ok \in BOOLEAN : MakeCallToSip(c, u, ok)
  \/ \E c \in CallIds : ApiHangup(c)
  \/ Shutdown
  \/ \E w \in Channels : Connect(w)
  \/ \E w \in Channels, u \in Users : Register(w, u)
  \/ \E w \in Channels, to \in Peers \cup {Null}, ok \in BOOLEAN :
        HubAnswer(w, to, ok)
  \/ \E w \in Channels, c \in CallIds : HubHangup(w, c)
  \/ \E w \in Channels, c \in CallIds : HubReject(w, c)
  \/ \E w \in Channels, to \in Peers, ok \in BOOLEAN : HubCallResponse(w, to, ok)
  \/ \E w \in Channels : Close(w)
  \/ \E k \in BagToSet(conts), ok \in BOOLEAN : OfferReturnsToInvite(k, ok)
  \/ \E k \in BagToSet(conts), ok \in BOOLEAN : OfferReturnsToReInvite(k, ok)
  \/ \E k \in BagToSet(conts), r \in RelayResults, n \in CSeqs :
        OfferReturnsToMakeCall(k, r, n)
  \/ \E k \in BagToSet(conts), ok \in BOOLEAN : AnswerReturnsToInviteResponse(k, ok)
  \/ \E k \in BagToSet(conts), ok \in BOOLEAN : AnswerReturnsToAnswerSipCall(k, ok)
  \/ \E k \in BagToSet(conts) : DeleteReturns(k)
  \/ \E t \in BagToSet(timers) : RetransmitTimer(t)
  \/ \E t \in BagToSet(timers) : TimerH(t)
  \/ \E t \in BagToSet(timers) : TransactionTimeout(t)

Spec == Init /\ [][Next]_vars

\* The steps that serve what is pending: a media-relay command returns or
\* throws (the relay client gives up after its own timeout), a timer fires.
ServeSteps ==
  {"IncomingInviteResume", "ReInviteResume", "MakeCallResume",
   "InviteResponseResume", "AnswerSipCallResume", "CleanupResume",
   "Retransmit200OK", "AckTimeout", "TimerB"}

Pending == run.shutdown # "done" /\ (conts # EmptyBag \/ timers # EmptyBag)

Served == Pending /\ step' \in ServeSteps

\* The program with its event loop running: while something is pending, a
\* step that serves it is taken; the datagrams, the browser messages and the
\* API calls may stop at any time.
SpecLive == Spec /\ WF_step(Served)

\* The peer registry with two channels and two usernames, and the inbound
\* calls that look the usernames up.
InitRegistry ==
  /\ sessions = <<>>
  /\ objs = [i \in ObjIds |-> FreeObj]
  /\ inviteTransactions = <<>>
  /\ transactions = {}
  /\ conts = EmptyBag
  /\ timers = EmptyBag
  /\ metrics = [activeSessions |-> 0, retriedInvites |-> 0,
                dtmfDigitsReceived |-> 0, reInvites |-> 0]
  /\ inputs = 0
  /\ users = <<>>
  /\ chans = [w \in RegChannels |-> NoChannel]
  /\ activeCalls = <<>>
  /\ created = [key \in CallIds \X Txns |-> 0]
  /\ relay = [c \in CallIds |-> NoRelay]
  /\ step = "init"
  /\ out = <<>>
  /\ emitted = <<>>
  /\ thrown = Null
  /\ wsOut = <<>>
  /\ run = Running
  /\ wire = NoWire

NextRegistry ==
  \/ \E w \in RegChannels : Connect(w)
  \/ \E w \in RegChannels, u \in RegNames : Register(w, u)
  \/ \E w \in RegChannels : Close(w)
  \/ \E c \in CallIds, x \in Txns, u \in RegNames :
        UdpInvite(c, x, u, TRUE, "a1")
  \/ \E k \in BagToSet(conts), ok \in BOOLEAN : OfferReturnsToInvite(k, ok)
  \/ \E w \in RegChannels, c \in CallIds : HubHangup(w, c)
  \/ \E w \in RegChannels, c \in CallIds : HubReject(w, c)
  \/ \E k \in BagToSet(conts) : DeleteReturns(k)

SpecRegistry == InitRegistry /\ [][NextRegistry]_vars

\* The hub's channels under the heartbeat.
NextHeartbeat ==
  \/ \E w \in RegChannels : Connect(w)
  \/ \E w \in RegChannels, u \in RegNames : Register(w, u)
  \/ \E w \in RegChannels : Pong(w)
  \/ Heartbeat
  \/ \E w \in RegChannels : Close(w)

SpecHeartbeat == InitRegistry /\ [][NextHeartbeat]_vars

\* The codec on its own, on each message object of Messages.
InitCodec ==
  /\ sessions = <<>>
  /\ objs = [i \in ObjIds |-> FreeObj]
  /\ inviteTransactions = <<>>
  /\ transactions = {}
  /\ conts = EmptyBag
  /\ timers = EmptyBag
  /\ metrics = [activeSessions |-> 0, retriedInvites |-> 0,
                dtmfDigitsReceived |-> 0, reInvites |-> 0]
  /\ inputs = 0
  /\ users = <<>>
  /\ chans = [w \in Channels |-> NoChannel]
  /\ activeCalls = <<>>
  /\ created = [key \in CallIds \X Txns |-> 0]
  /\ relay = [c \in CallIds |-> NoRelay]
  /\ step = "init"
  /\ out = <<>>
  /\ emitted = <<>>
  /\ thrown = Null
  /\ wsOut = <<>>
  /\ run = Running
  /\ \E m \in Messages :
       wire = [stage |-> "message", message |-> m, text |-> <<>>,
               parsed |-> <<>>]

NextCodec == Serialize \/ Parse

SpecCodec == InitCodec /\ [][NextCodec]_vars

\* The requests that neither read nor write a dialog, on their own.
NextStateless ==
  \/ \E c \in CallIds, l \in BOOLEAN, ct \in BOOLEAN, e \in BOOLEAN,
        sig \in Signals \cup {Null}, dur \in Durations \cup {NoDuration} :
       UdpInfo(c, l, ct, e, sig, dur)
  \/ \E c \in CallIds : UdpOptions(c)
  \/ \E c \in CallIds : UdpOtherMethod(c)

SpecStateless == Init /\ [][NextStateless]_vars

-----------------------------------------------------------------------------
(* Claims *)

\* C1: the cleanupSession invocations for one dialog together issue exactly
\* one media-relay delete (and so one removal from the store and one
\* decrement of the active-session counter when that delete returns).
C1_CleanupOnce ==
  \A i \in ObjIds : objs[i].deletes <= 1

\* C2: the number of dialogs in the store never exceeds
\* maxConcurrentSessions.
C2_StoreWithinCapacity ==
  Cardinality(DOMAIN sessions) <= MaxConcurrentSessions

\* C3: an INVITE whose (call-id, cseq, branch) key has a remembered response in
\* the server-transaction store is answered by exactly that response, once;
\* retriedInvites grows by one; no dialog is created or changed, no
\* media-relay operation is issued, no event is emitted.
C3_DuplicateInviteReplayed ==
  [][\A c \in CallIds, x \in Txns, u \in Users, ok \in BOOLEAN, a \in Origins :
       (/\ <<c, x>> \in DOMAIN inviteTransactions
        /\ inviteTransactions[<<c, x>>].status # 0
        /\ UdpInvite(c, x, u, ok, a))
       => /\ out' = <<Datagram(inviteTransactions[<<c, x>>].status, "", c, x,
                               inviteTransactions[<<c, x>>].body)>>
          /\ metrics'.retriedInvites = metrics.retriedInvites + 1
          /\ metrics'.activeSessions = metrics.activeSessions
          /\ sessions' = sessions
          /\ objs' = objs
          /\ conts' = conts
          /\ emitted' = <<>>
          /\ activeCalls' = activeCalls
          /\ created' = created]_vars

\* A retransmitted INVITE has just been answered with the remembered 200 OK
\* and its SDP body.
C3_Witness ==
  /\ step = "HandleInvite"
  /\ metrics.retriedInvites >= 1
  /\ Len(out) = 1
  /\ out[1].status = 200
  /\ out[1].body = "sdp"

\* C4: the INVITE datagrams carrying one (call-id, cseq, branch) create at most
\* one dialog.
C4_OneDialogPerInviteKey ==
  \A key \in CallIds \X Txns : created[key] <= 1

\* C5: an incoming dialog becomes established only by an ACK received while
\* it is answered, and then none of its timers stays armed.
C5_EstablishedOnlyByAckInAnswered ==
  [][\A i \in ObjIds :
       (/\ objs[i].direction = "incoming"
        /\ objs[i].state # "established"
        /\ objs'[i].direction = "incoming"
        /\ objs'[i].state = "established")
       => /\ objs[i].state = "answered"
          /\ step' = "HandleAck"
          /\ \A t \in BagToSet(timers') : t.obj # i]_vars

\* C6: once Timer H has fired for a dialog, its state is never set to
\* established.
C6_NoResurrectionAfterTimerH ==
  \A i \in ObjIds : objs[i].hFired => objs[i].state # "established"

\* C7: a 200-retransmit timer or a Timer H is pending only for a dialog that
\* is in the store in state answered.
C7_TimersOnlyWhileAnswered ==
  \A t \in BagToSet(timers) :
    t.kind \in {"H", "R"} =>
      /\ t.callId \in DOMAIN sessions
      /\ sessions[t.callId] = t.obj
      /\ objs[t.obj].state = "answered"

\* C8: every established dialog has a local and a remote tag.
C8_EstablishedHasBothTags ==
  \A i \in ObjIds :
    objs[i].state = "established" =>
      objs[i].fromTag # Null /\ objs[i].toTag # Null

\* C9: at most seven 200 OK retransmissions are sent for a dialog.
C9_AtMostSevenRetransmissions ==
  \A i \in ObjIds : objs[i].rtotal <= MaxRetransmits

\* The times, after the 200 OK, of its retransmissions when no ACK arrives:
\* 0.5 s, 1.5 s, 3.5 s, 7.5 s, 11.5 s, 15.5 s, 19.5 s.
Sched == {T1, 3 * T1, 7 * T1, 15 * T1, 23 * T1, 31 * T1, 39 * T1}

\* C10: for an answered incoming dialog that receives no ACK (and on which
\* nothing but its own timers acts), the 200 OK is retransmitted exactly at
\* the times of Sched, seven times in all; Timer H fires 32 s after the 200 OK
\* and not before; one call-failed event, with the reason 'ACK timeout', goes
\* to the hub and the cleanup of the dialog is started.
C10_AckTimeoutSchedule ==
  /\ step = "AckTimeout" =>
       \/ emitted = <<>>
       \/ \E u \in Users \cup {Null} :
            emitted = <<Event("call-failed", Null, u, "ACK timeout")>>
  /\ \A i \in ObjIds :
    LET o == objs[i]
    IN (o.okSent /\ o.quiet) =>
         /\ Cardinality({x \in Sched : x < o.sinceOk}) <= o.rtotal
         /\ o.rtotal <= Cardinality({x \in Sched : x <= o.sinceOk})
         /\ ~o.hFired => /\ o.sinceOk <= TIMER_H
                         /\ o.failedEv = 0
         /\ o.hFired => /\ o.sinceOk = TIMER_H
                        /\ o.rtotal = MaxRetransmits
                        /\ o.failedEv = 1
                        /\ o.state = "terminating"
                        /\ \E k \in BagToSet(conts) :
                             k.op = "cleanup" /\ k.callId = o.callId

\* Timer H has fired on a dialog that was answered and then left alone.
C10_Witness ==
  \E i \in ObjIds :
    /\ objs[i].okSent
    /\ objs[i].quiet
    /\ objs[i].hFired
    /\ objs[i].rtotal = MaxRetransmits
    /\ objs[i].failedEv = 1
    /\ step = "AckTimeout"
    /\ Len(emitted) = 1

\* C11: once a call for which the media relay accepted an offer is complete
\* (nothing of it is left in the gateway), exactly one media-relay delete has
\* been issued for it: the relay session is neither left undeleted nor
\* deleted twice.
C11_OneDeletePerCall ==
  \A c \in CallIds :
    (relay[c].live /\ Complete(Cur, c)) => relay[c].dels = 1

\* C12: a 2xx response to the outgoing INVITE that arrives when the cleanup
\* of the dialog has begun (state terminating) or the dialog is gone changes
\* no dialog state, invokes no media-relay answer, sends no ACK and emits no
\* event.
C12_Late2xxIsNoOp ==
  [][\A c \in CallIds, ok \in BOOLEAN :
       (/\ UdpResponse(c, 200, ok)
        /\ c \in DOMAIN sessions => objs[sessions[c]].state = "terminating")
         => /\ out' = <<>>
            /\ emitted' = <<>>
            /\ conts' = conts
            /\ sessions' = sessions
            /\ \A i \in ObjIds : /\ objs'[i].state = objs[i].state
                                 /\ objs'[i].toTag = objs[i].toTag]_vars

\* The first call of the closing channel's user is an incoming dialog that is
\* still ringing.
RingingAtClose(w) ==
  LET calls == CallsOf(activeCalls, chans[w].username)
  IN /\ chans[w].username # Null
     /\ calls # <<>>
     /\ calls[1] \in DOMAIN sessions
     /\ objs[sessions[calls[1]]].direction = "incoming"
     /\ objs[sessions[calls[1]]].state = "ringing"

\* C13: when the channel of the browser peer an incoming call targets closes
\* while the dialog is still ringing, the close handler issues a media-relay
\* delete for the call and sends a 603 final response to the INVITE.
C13_DisconnectWhileRinging ==
  [][\A w \in Channels :
       (Close(w) /\ RingingAtClose(w))
         => LET c == CallsOf(activeCalls, chans[w].username)[1]
            IN /\ objs'[sessions[c]].deletes = objs[sessions[c]].deletes + 1
               /\ \E n \in 1..Len(out') :
                    out'[n].status = 603 /\ out'[n].callId = c]_vars

\* C14: an INFO datagram whose Content-Type contains application/dtmf-relay
\* and whose body carries a valid Signal is answered with one 200 OK, emits
\* one dtmf event with the digit and the duration (160 when the body gives
\* none), and increments dtmfDigitsReceived by one.
C14_DtmfInfoAnswered ==
  [][\A c \in CallIds, l \in BOOLEAN, e \in BOOLEAN, sig \in Signals,
        dur \in Durations \cup {NoDuration} :
       UdpInfo(c, l, TRUE, e, sig, dur)
         => /\ out' = <<Datagram(200, "", c, Null, Null)>>
            /\ emitted' = <<DtmfEvent(c, sig, IF dur = NoDuration THEN DefaultDuration
                                                            ELSE dur)>>
            /\ metrics'.dtmfDigitsReceived = metrics.dtmfDigitsReceived + 1]_vars

\* The INVITE (callId, txn) is an initial one: not a retransmission the
\* server-transaction store knows, not a re-INVITE of an established dialog.
InitialInvite(callId, txn) ==
  /\ <<callId, txn>> \notin DOMAIN inviteTransactions
  /\ callId \in DOMAIN sessions => objs[sessions[callId]].state # "established"

AtCapacity == Cardinality(DOMAIN sessions) >= MaxConcurrentSessions

\* The step creates, removes and changes no dialog, suspends no handler on
\* the media relay, adds no server-transaction entry and leaves the counters
\* alone.
NothingCreated ==
  /\ sessions' = sessions
  /\ \A i \in ObjIds : [objs'[i] EXCEPT !.quiet = objs[i].quiet] = objs[i]
  /\ conts' = conts
  /\ inviteTransactions' = inviteTransactions
  /\ created' = created
  /\ metrics' = metrics
  /\ activeCalls' = activeCalls

\* C15 as stated: an initial INVITE whose body fails validateSDP is answered
\* with 500 and creates nothing.
C15_InvalidSdpAnswered500 ==
  [][\A c \in CallIds, x \in Txns, u \in Users, a \in Origins :
       (UdpInvite(c, x, u, FALSE, a) /\ InitialInvite(c, x))
         => /\ out' = <<Datagram(500, "", c, x, Null)>>
            /\ emitted' = <<>>
            /\ NothingCreated]_vars

\* C15, amended: an initial INVITE whose body fails validateSDP, arriving
\* while the store holds fewer than maxConcurrentSessions dialogs, is answered
\* with 500; one arriving at capacity is answered with 503; in both cases no
\* dialog, server-transaction entry, media-relay offer or incoming-call event
\* is created and the store and the counters are unchanged.
C15_InvalidSdpBelowCapacity ==
  [][\A c \in CallIds, x \in Txns, u \in Users, a \in Origins :
       (UdpInvite(c, x, u, FALSE, a) /\ InitialInvite(c, x))
         => /\ out' = <<Datagram(IF AtCapacity THEN 503 ELSE 500, "", c, x, Null)>>
            /\ emitted' = <<>>
            /\ NothingCreated]_vars

\* An INVITE was just answered 500 while the gateway held no dialog.
C15_Witness ==
  /\ step = "HandleInvite"
  /\ Len(out) = 1
  /\ out[1].status = 500
  /\ sessions = <<>>
  /\ conts = EmptyBag
  /\ inputs >= 2

\* C16: at capacity, a new initial inbound INVITE is answered 503 and
\* makeCallToSip throws the capacity error; neither issues a media-relay
\* operation or changes the dialog store or the counters.
C16_CapacityRefused ==
  [][/\ \A c \in CallIds, x \in Txns, u \in Users, ok \in BOOLEAN, a \in Origins :
          (UdpInvite(c, x, u, ok, a) /\ InitialInvite(c, x) /\ AtCapacity)
            => /\ out' = <<Datagram(503, "", c, x, Null)>>
               /\ emitted' = <<>>
               /\ NothingCreated
     /\ \A c \in CallIds, u \in Users, ok \in BOOLEAN :
          (MakeCallToSip(c, u, ok) /\ AtCapacity)
            => /\ thrown' = "Maximum concurrent sessions reached"
               /\ out' = <<>>
               /\ emitted' = <<>>
               /\ NothingCreated]_vars

\* An inbound INVITE was just refused with 503 by a full gateway.
C16_Witness ==
  /\ step = "HandleInvite"
  /\ Len(out) = 1
  /\ out[1].status = 503
  /\ AtCapacity

\* The status codes the gateway is specified to emit.
SpecifiedStatus == {100, 180, 200, 480, 487, 500, 501, 503, 603}

\* C17: every SIP response the gateway sends carries one of the specified
\* status codes.
C17_OnlySpecifiedStatus ==
  \A n \in 1..Len(out) :
    out[n].method = "" => out[n].status \in SpecifiedStatus

\* C18: each channel owns at most one entry of the peer registry, and no
\* entry refers to a channel that has closed.
C18_OneNamePerChannel ==
  /\ \A w \in DOMAIN chans :
       Cardinality({u \in DOMAIN users : users[u] = w}) <= 1
  /\ \A u \in DOMAIN users : chans[users[u]].state = "open"

\* The username that owns the dialog of callId: the client the call was
\* placed for, or the peer of its active-call entry.
OwnedBy(callId, u) ==
  /\ callId \in DOMAIN sessions
  /\ \/ ClientId(objs[sessions[callId]]) = u
     \/ callId \in Range(CallsOf(activeCalls, u))

\* A registered channel has just closed (the close handler removes no
\* dialog, and no entry of a dialog still to hang up, before its first
\* await).
JustClosed(w) ==
  /\ step = "Close"
  /\ chans[w].state = "closed"
  /\ chans[w].username # Null

\* C19: every dialog owned by the username of a channel when the channel
\* closes is eventually removed from the store, and every active-call entry
\* of the username is eventually removed.
C19_DisconnectHangsUpAll ==
  \A w \in Channels, c \in CallIds :
    /\ (JustClosed(w) /\ OwnedBy(c, chans[w].username))
         ~> (c \notin DOMAIN sessions)
    /\ JustClosed(w) ~> (CallsOf(activeCalls, chans[w].username) = <<>>)

\* A message object as the engine writes and reads them: the header names
\* lower-case and long, Via a list, every value without blanks around it.
WellFormed(m) ==
  /\ \A k \in DOMAIN m.headers :
       /\ toLowerCase(k) = k
       /\ \A e \in 1..Len(CompactMap) : CompactMap[e][1] # k
       /\ \A n \in 1..Len(m.headers[k].vals) :
            trim(m.headers[k].vals[n]) = m.headers[k].vals[n]
       /\ m.headers[k].multi <=> k = "via"

\* C20: parsing the text of a well-formed message object gives the message
\* object back: start line, header map (the Via list in order) and body.
C20_RoundTrip ==
  (wire.stage = "parsed" /\ WellFormed(wire.message))
    => wire.parsed = wire.message

\* C20, amended: it gives the message object back when the object carries
\* a Content-Length; when it carries none, the object with content-length
\* set to the byte count of its body.
C20_RoundTripUpToContentLength ==
  (wire.stage = "parsed" /\ WellFormed(wire.message))
    => LET m == wire.message
           bytes == IF m.body = <<"">> THEN 0 ELSE ByteLength(m.body)
       IN wire.parsed =
            IF "content-length" \in DOMAIN m.headers
              THEN m
              ELSE [m EXCEPT !.headers =
                      ("content-length" :> Str(Numeral(bytes))) @@ @]

C20_Witness ==
  /\ wire.stage = "parsed"
  /\ WellFormed(wire.message)
  /\ "content-length" \in DOMAIN wire.message.headers
  /\ "via" \in DOMAIN wire.message.headers
  /\ Len(wire.message.headers["via"].vals) = 2
  /\ Len(wire.message.body) = 2
  /\ wire.parsed = wire.message

\* shutdown() returns in this step.
ShutdownReturns == run.shutdown # "done" /\ run.shutdown' = "done"

\* C21: when shutdown returns the dialog store is empty (every dialog that
\* existed has been removed, one that was terminating included), no
\* media-relay delete is still pending, and no client transaction is
\* registered or has its timer armed.
C21_ShutdownCompletes ==
  [][ShutdownReturns =>
       /\ sessions' = <<>>
       /\ \A k \in BagToSet(conts') : k.op # "cleanup"
       /\ transactions' = {}
       /\ \A t \in BagToSet(timers') : t.kind # "B"]_vars

\* A suspended handler that has issued a media-relay offer.
OfferConts(cs) ==
  [k \in {x \in BagToSet(cs) : x.op \in {"invite", "makeCall"}} |-> cs[k]]

\* C22: once isRunning is false no media-relay offer is issued and no
\* dialog is put into the store, whatever arrives or resumes: a
\* makeCallToSip call and an initial INVITE are rejected.
C22_NothingNewAfterShutdown ==
  [][~run.isRunning =>
       /\ OfferConts(conts') \sqsubseteq OfferConts(conts)
       /\ DOMAIN sessions' \subseteq DOMAIN sessions
       /\ \A c \in DOMAIN sessions' : sessions'[c] = sessions[c]]_vars

\* C23: every client transaction registered for an outbound INVITE is
\* eventually removed from the transaction store, whatever the peer sends.
C23_TransactionRemoved ==
  \A c \in CallIds : (c \in transactions) ~> (c \notin transactions)

\* The dialog of callId is an outgoing one in state calling.
Calling(callId) ==
  /\ callId \in DOMAIN sessions
  /\ objs[sessions[callId]].direction = "outgoing"
  /\ objs[sessions[callId]].state = "calling"

\* C24: a 180 for an outgoing dialog in state calling moves the dialog to
\* ringing and emits one ringing event for its owner; a 100 changes no state
\* and emits nothing.
C24_RingingOn180 ==
  [][\A c \in CallIds :
       /\ (Calling(c) /\ UdpResponse(c, 180, TRUE))
            => /\ objs'[sessions[c]].state = "ringing"
               /\ emitted' = <<Event("sip-ringing", c,
                                      ClientId(objs[sessions[c]]), Null)>>
       /\ (Calling(c) /\ UdpResponse(c, 100, TRUE))
            => /\ objs'[sessions[c]].state = "calling"
               /\ emitted' = <<>>]_vars

\* C25: whenever the answered event is emitted, the ACK of the call is the
\* datagram the handler sent just before it; and the handler that finds the
\* media-relay answer failed emits no answered event.
C25_AckBeforeAnswered ==
  [][/\ \A n \in 1..Len(emitted') :
          emitted'[n].type = "call-answered"
            => /\ emitted'[n].sent \in 1..Len(out')
               /\ out'[emitted'[n].sent].method = "ACK"
               /\ out'[emitted'[n].sent].callId = emitted'[n].callId
      /\ \A k \in BagToSet(conts) :
          AnswerReturnsToInviteResponse(k, FALSE)
            => \A m \in 1..Len(emitted') : emitted'[m].type # "call-answered"]_vars

\* The answer returned ok and the answered event has just been emitted; and
\* (before) the answer of an outgoing call was pending.
C25_Witness ==
  /\ step = "InviteResponseResume"
  /\ \E n \in 1..Len(emitted) : emitted[n].type = "call-answered"
  /\ \E n \in 1..Len(out) : out[n].method = "ACK"


\* The answer handler of callId is suspended on the media relay while the
\* incoming dialog it answers is still the stored one, in state answered.
AnsweringIncoming(k) ==
  /\ k.op = "answerIn"
  /\ k.callId \in DOMAIN sessions
  /\ sessions[k.callId] = k.obj
  /\ objs[k.obj].direction = "incoming"
  /\ objs[k.obj].state = "answered"

\* C26: when the media-relay answer fails while an incoming call is being
\* answered, the engine sends 500 to the telephony peer for the original
\* INVITE and starts the cleanup of the dialog: one media-relay delete is
\* issued and the dialog is terminating or gone.
C26_AnswerFailureSends500 ==
  [][\A k \in BagToSet(conts) :
       AnsweringIncoming(k) /\ AnswerReturnsToAnswerSipCall(k, FALSE)
         => /\ \E n \in 1..Len(out') :
                 /\ out'[n].status = 500
                 /\ out'[n].callId = k.callId
                 /\ out'[n].txn = objs[k.obj].txn
            /\ objs'[k.obj].deletes = objs[k.obj].deletes + 1
            /\ \/ k.callId \notin DOMAIN sessions'
               \/ objs'[sessions'[k.callId]].state = "terminating"]_vars


\* hangup(callId) is called by the application or by the hub's hangup case.
HangupCalled(callId) ==
  \/ ApiHangup(callId)
  \/ \E w \in Channels :
       /\ OwnsEntry(activeCalls, callId, chans[w].username)
       /\ HubHangup(w, callId)

C28_CancelWaitsFor487 ==
  [][\A c \in DOMAIN sessions :
       LET o == objs[sessions[c]]
       IN (o.direction = "outgoing" /\ o.state = "calling" /\ HangupCalled(c))
            => /\ out' = <<[Datagram(0, "CANCEL", c, Null, Null)
                              EXCEPT !.cseq = o.cseq,
                                     !.branch = InviteBranch,
                                     !.dst = SipServer]>>
               /\ c \in DOMAIN sessions'
               /\ objs'[sessions'[c]].state # "terminating"
               /\ objs'[sessions'[c]].deletes = o.deletes]_vars


\* C29: a CANCEL for an incoming dialog in state ringing is answered 200, the
\* original INVITE is answered 487 at the address it came from, the ended
\* event of the call is emitted, on which the hub tells the browser peer and
\* drops its active-call entry, and the cleanup runs: the dialog is
\* terminating and one media-relay delete is issued.
C29_CancelWhileRinging ==
  [][\A c \in DOMAIN sessions :
       LET o == objs[sessions[c]]
       IN (o.direction = "incoming" /\ o.state = "ringing" /\ UdpCancel(c))
            => /\ out' = <<Datagram(200, "", c, Null, Null),
                           [Datagram(487, "", c, o.txn, Null)
                              EXCEPT !.dst = o.rinfo]>>
               /\ \E n \in 1..Len(emitted') :
                    /\ emitted'[n].type = "sip-call-ended"
                    /\ emitted'[n].callId = c
               /\ Entry(activeCalls', c) = <<>>
               /\ objs'[sessions'[c]].state = "terminating"
               /\ objs'[sessions'[c]].deletes = o.deletes + 1]_vars


\* An INVITE with a transaction key the server-transaction store does not
\* hold arrives for the call-id of a stored dialog.
NewKeyInvite(callId, txn) ==
  /\ callId \in DOMAIN sessions
  /\ <<callId, txn>> \notin DOMAIN inviteTransactions
  /\ \E u \in Users, a \in Origins : UdpInvite(callId, txn, u, TRUE, a)

\* The handlers of re-INVITEs suspended on their offer.
ReInviteConts(cs) ==
  cs (-) SetToBag({k \in BagToSet(cs) : k.op # "reinvite"})

\* C30: an INVITE with a new transaction key for a dialog in state
\* established is a renegotiation.  reInvites grows by one and the
\* media-relay offer is invoked with the dialog's from-tag and to-tag; when
\* the offer succeeds, 200 with the translated SDP is sent and the
\* media-renegotiation event names the browser peer that owns the dialog; the
\* state and the tags of the dialog stay as they are.  For a dialog in any
\* other state reInvites stays and no such offer is invoked.
C30_ReInviteOnlyWhenEstablished ==
  [][/\ \A c \in CallIds, x \in Txns :
          NewKeyInvite(c, x)
            => LET o == objs[sessions[c]]
               IN IF o.state = "established"
                    THEN /\ metrics'.reInvites = metrics.reInvites + 1
                         /\ \E k \in BagToSet(conts') :
                              /\ k.op = "reinvite"
                              /\ k.callId = c
                              /\ k.txn = x
                              /\ k.tags = <<o.fromTag, o.toTag>>
                              /\ ReInviteConts(conts') = ReInviteConts(conts) (+) One(k)
                         /\ sessions' = sessions
                         /\ objs'[sessions[c]].state = "established"
                         /\ objs'[sessions[c]].fromTag = o.fromTag
                         /\ objs'[sessions[c]].toTag = o.toTag
                    ELSE /\ metrics'.reInvites = metrics.reInvites
                         /\ ReInviteConts(conts') = ReInviteConts(conts)
     /\ \A k \in BagToSet(conts) :
          (/\ k.callId \in DOMAIN sessions
           /\ sessions[k.callId] = k.obj
           /\ objs[k.obj].state = "established"
           /\ OfferReturnsToReInvite(k, TRUE))
            => /\ out' = <<Datagram(200, "", k.callId, k.txn, "sdp")>>
               /\ Len(emitted') = 1
               /\ emitted'[1].type = "media-renegotiation"
               /\ emitted'[1].callId = k.callId
               /\ \E u \in Users : OwnedBy(k.callId, u) /\ emitted'[1].user = u
               /\ sessions' = sessions
               /\ objs'[k.obj].state = "established"
               /\ objs'[k.obj].fromTag = objs[k.obj].fromTag
               /\ objs'[k.obj].toTag = objs[k.obj].toTag]_vars


\* C31: an answer message with a to field is forwarded to that peer and does
\* not reach the engine: no handler is started, no dialog changes, nothing
\* is sent on the SIP side.  An answer without a to field reaches the engine
\* only when its sender is the callee of an incoming active call.
C31_AnswerWithToForwarded ==
  [][/\ \A w \in Channels, to \in Peers, ok \in BOOLEAN :
          HubAnswer(w, to, ok)
            => /\ Len(wsOut') = 1
               /\ wsOut'[1].type = "answer"
               /\ wsOut'[1].from = chans[w].username
               /\ wsOut'[1].to = to
               /\ conts' = conts
               /\ sessions' = sessions
               /\ \A c \in DOMAIN sessions :
                    objs'[sessions[c]].state = objs[sessions[c]].state
               /\ out' = <<>>
     /\ \A w \in Channels, ok \in BOOLEAN :
          (HubAnswer(w, Null, ok) /\ conts' # conts)
            => Owned(activeCalls, chans[w].username) # <<>>]_vars


\* Nothing of the engine or of the active-call index changes in the step.
CallsUntouched ==
  /\ activeCalls' = activeCalls
  /\ sessions' = sessions
  /\ objs' = objs
  /\ conts' = conts
  /\ timers' = timers
  /\ out' = <<>>
  /\ emitted' = <<>>

Unreachable(u) ==
  \/ u \notin DOMAIN users
  \/ chans[users[u]].state # "open"

\* C33: when the incoming call of an INVITE cannot be delivered to its
\* target, the INVITE is answered 480 and with no other final status, the
\* cleanup of the dialog is started, and the active-call entry of the call is
\* gone or goes when that cleanup returns.
C33_UnreachableRejected480 ==
  [][\A k \in BagToSet(conts) :
       (Unreachable(k.user) /\ OfferReturnsToInvite(k, TRUE))
         => /\ \E n \in 1..Len(out') :
                 /\ out'[n].status = 480
                 /\ out'[n].callId = k.callId
                 /\ out'[n].txn = k.txn
            /\ \A n \in 1..Len(out') : out'[n].status \in {100, 180, 480}
            /\ k.callId \in DOMAIN sessions'
            /\ objs'[sessions'[k.callId]].state = "terminating"
            /\ \/ Entry(activeCalls', k.callId) = <<>>
               \/ \E j \in BagToSet(conts') :
                    /\ j.op = "cleanup"
                    /\ j.callId = k.callId
                    /\ j.after = "hubDelete"]_vars


\* The heartbeat terminates channel w in this step.
Terminated(w) ==
  /\ Heartbeat
  /\ chans[w].state = "open"
  /\ chans'[w].state = "closed"

\* C34: the heartbeat terminates a channel only after the channel has left
\* two pings in a row without a pong.
C34_TwoMissedPings ==
  [][\A w \in RegChannels : Terminated(w) => chans[w].unanswered >= 2]_vars


\* C35: once answerSipCall has sent the 200 of an incoming INVITE, no
\* response with a final status other than 2xx is sent for that INVITE.
C35_NoFinalAfter200 ==
  [][\A c \in DOMAIN sessions :
       LET o == objs[sessions[c]]
       IN (o.direction = "incoming" /\ o.okSent)
            => \A n \in 1..Len(out') :
                 (out'[n].callId = c /\ out'[n].txn = o.txn)
                   => out'[n].status < 300]_vars


\* The pending timers of the dialog object i.
TimersOf(ts, i) ==
  ts (-) SetToBag({x \in BagToSet(ts) : x.obj # i})

\* C36: the handling of an INVITE never replaces a stored dialog: whatever
\* handleInvite and handleIncomingInvite do for a call-id whose dialog is in
\* the store in a state other than established, the store keeps that dialog
\* record, with its state, its tags and its armed timers.
C36_DialogNeverReplaced ==
  [][step' \in {"HandleInvite", "IncomingInviteResume"}
       => \A c \in DOMAIN sessions :
            LET i == sessions[c]
            IN objs[i].state # "established"
                 => /\ c \in DOMAIN sessions'
                    /\ sessions'[c] = i
                    /\ objs'[i].state = objs[i].state
                    /\ objs'[i].fromTag = objs[i].fromTag
                    /\ objs'[i].toTag = objs[i].toTag
                    /\ TimersOf(timers', i) = TimersOf(timers, i)]_vars


\* C37: metrics.activeSessions is never negative, and whenever no engine
\* operation is suspended it equals the number of dialogs in the store.
C37_ActiveSessionsCountsDialogs ==
  /\ metrics.activeSessions >= 0
  /\ conts = EmptyBag
       => metrics.activeSessions = Cardinality(DOMAIN sessions)


\* C38: every entry of inviteTransactions belongs to a dialog that is in the
\* dialog store, records the entry's key as its transaction key and has not
\* received its ACK.
C38_TransactionHasDialog ==
  \A key \in DOMAIN inviteTransactions :
    /\ key[1] \in DOMAIN sessions
    /\ objs[sessions[key[1]]].txn = key[2]
    /\ ~objs[sessions[key[1]]].ackReceived


\* C39: the active-call index never permanently holds the call-id of an
\* incoming dialog the engine has removed: once nothing is pending in the
\* engine (no suspended operation, no armed timer), so that no event can
\* still come, every incoming entry of the index has its dialog in the store.
C39_NoStaleActiveCall ==
  (conts = EmptyBag /\ timers = EmptyBag)
    => \A k \in 1..Len(activeCalls) :
         activeCalls[k].direction = "incoming"
           => activeCalls[k].callId \in DOMAIN sessions


\* The dialog the answer of the peer on channel w is for is stored and is not
\* an incoming dialog in state ringing.
AnswerNotRinging(w) ==
  LET own == Owned(activeCalls, chans[w].username)
  IN /\ chans[w].username # Null
     /\ own # <<>>
     /\ own[1].callId \in DOMAIN sessions
     /\ LET o == objs[sessions[own[1].callId]]
        IN \/ o.state \in {"answered", "established", "terminating"}
           \/ o.direction = "outgoing"

\* C40: answerSipCall invoked for a dialog that is not an incoming dialog in
\* state ringing sends no 200 OK, issues no media-relay answer, arms no timer
\* and leaves the dialog's state unchanged.
C40_AnswerOnlyWhenRinging ==
  [][\A w \in Channels, to \in Peers \cup {Null}, ok \in BOOLEAN :
       (AnswerNotRinging(w) /\ HubAnswer(w, to, ok))
         => LET i == sessions[Owned(activeCalls, chans[w].username)[1].callId]
            IN /\ objs'[i].state = objs[i].state
               /\ conts' = conts
               /\ timers' = timers
               /\ out' = <<>>]_vars

====
